---------------------------- MODULE Spec2Model ----------------------------
(***************************************************************************)
(* Model of the hashtag generator component (src/src/App.jsx).             *)
(*                                                                         *)
(* A text is a sequence of one-character strings.  One action of the model *)
(* is one browser event taken to completion: the handler, the render that  *)
(* follows it and every effect whose dependencies changed, repeated until  *)
(* no state setter is pending.                                             *)
(***************************************************************************)
EXTENDS Integers, Sequences, FiniteSets, TLC

(***************************************************************************)
(* Program constants and model bounds.                                     *)
(***************************************************************************)
MAX_HASHTAGS == 30

SUGGESTION_LIMIT == 5

\* Longest text the keystroke actions build.
MaxLen == 2

\* Delete clicks explored in one run of the model.
MaxDeletes == 2

\* Clipboard writes that may be in flight together.
MaxPending == 1

\* Distinct identities of dismiss timers (ids are reused cyclically).
TimerIds == 2

(***************************************************************************)
(* Characters.                                                             *)
(***************************************************************************)
Letters ==
    {"a", "b", "c", "d", "f", "g", "i", "l", "m", "o", "p", "t", "x"}

\* /[,\s]+/ : a comma or white space.
Separators == {",", " "}

\* /\s+/ : white space only.
WhiteSpace == {" "}

\* Characters a keystroke may add.
TypedChars == {"a", " ", ",", "#", "<"}

IsWordChar(c) == c \in Letters

Min(a, b) == IF a <= b THEN a ELSE b

Max(a, b) == IF a >= b THEN a ELSE b

\* The element of a one-element set.  Written around a set constructor,
\* The({e : x \in {v}}), it names the value of v in e, as a local constant
\* of the code does.
The(S) == CHOOSE r \in S : TRUE

\* Index of the first character of s at or after i that is in stops,
\* Len(s) + 1 when there is none.
RECURSIVE FirstIn(_, _, _)
FirstIn(s, i, stops) ==
    IF i > Len(s) \/ s[i] \in stops THEN i ELSE FirstIn(s, i + 1, stops)

\* Index of the first character of s at or after i that is not in skips.
RECURSIVE FirstNotIn(_, _, _)
FirstNotIn(s, i, skips) ==
    IF i > Len(s) \/ s[i] \notin skips THEN i
    ELSE FirstNotIn(s, i + 1, skips)

\* Index of the last character of s at or before i that is not in skips,
\* 0 when there is none.
RECURSIVE LastNotIn(_, _, _)
LastNotIn(s, i, skips) ==
    IF i < 1 \/ s[i] \notin skips THEN i ELSE LastNotIn(s, i - 1, skips)

(***************************************************************************)
(* String.prototype.split with a regular expression /[set]+/ : the pieces  *)
(* between maximal runs of separator characters.  A text that starts or    *)
(* ends with a separator yields an empty first or last piece, and the      *)
(* empty text yields one empty piece.                                      *)
(***************************************************************************)
RECURSIVE SplitFrom(_, _, _)
SplitFrom(s, i, seps) ==
    The({IF stop > Len(s) THEN <<SubSeq(s, i, stop - 1)>>
         ELSE <<SubSeq(s, i, stop - 1)>>
              \o SplitFrom(s, FirstNotIn(s, stop, seps), seps) :
            stop \in {FirstIn(s, i, seps)}})

Split(s, seps) == SplitFrom(s, 1, seps)

\* Array.prototype.join.
Join(parts, sep) ==
    LET glue[k \in 0..Len(parts)] ==
            IF k = 0 THEN <<>>
            ELSE IF k = 1 THEN parts[1]
            ELSE glue[k - 1] \o sep \o parts[k]
    IN  glue[Len(parts)]

\* String.prototype.trim.
Trim(s) ==
    SubSeq(s, FirstNotIn(s, 1, WhiteSpace), LastNotIn(s, Len(s), WhiteSpace))

\* Array.prototype.slice(from, to) with 0 <= from <= to.
\* A slice that keeps the element at index to as well.
SliceInclusive(seq, from, to) == SubSeq(seq, from + 1, Min(to + 1, Len(seq)))

Slice(seq, from, to) == SubSeq(seq, from + 1, Min(to, Len(seq)))

(***************************************************************************)
(* DOMPurify.sanitize(token) for a token without white space.              *)
(*   - a token without "<" is returned as it is;                           *)
(*   - otherwise the token is parsed as HTML, elements and attributes off  *)
(*     the allow-list are removed (an element's content is kept) and the   *)
(*     body is serialised again: text "<" and ">" become "&lt;" and        *)
(*     "&gt;", an open element is closed, attribute values are quoted and  *)
(*     separated from the tag name by a space.  A tag that the token ends  *)
(*     in the middle of is dropped together with everything after "<".     *)
(***************************************************************************)
AllowedTags == {<<"a">>, <<"b">>, <<"i">>, <<"p">>}

AllowedAttrs == {<<"i", "d">>, <<"d", "i", "r">>}

EscapeText(c) ==
    CASE c = "&" -> <<"&", "a", "m", "p", ";">>
      [] c = "<" -> <<"&", "l", "t", ";">>
      [] c = ">" -> <<"&", "g", "t", ";">>
      [] OTHER -> <<c>>

RECURSIVE Closers(_)
Closers(open) ==
    IF Len(open) = 0 THEN <<>>
    ELSE <<"<", "/">> \o open[1] \o <<">">> \o Closers(Tail(open))

RECURSIVE PopTo(_, _)
\* The open elements left after closing the innermost element called name.
PopTo(open, name) ==
    IF open[1] = name THEN Tail(open) ELSE PopTo(Tail(open), name)

InStack(open, name) == \E k \in 1..Len(open) : open[k] = name

\* The attributes of a start tag, read from position j (just after the tag
\* name): [end |-> index of the closing ">", 0 when the token ends first].
RECURSIVE ParseAttrs(_, _, _)
ParseAttrs(s, j, attrs) ==
    IF j > Len(s) THEN [end |-> 0, attrs |-> attrs]
    ELSE IF s[j] = ">" THEN [end |-> j, attrs |-> attrs]
    ELSE IF s[j] = "/" THEN ParseAttrs(s, j + 1, attrs)
    ELSE
        The({LET name == SubSeq(s, j, nameEnd - 1)
                 hasValue == nameEnd <= Len(s) /\ s[nameEnd] = "="
             IN  The({ParseAttrs(s, valueEnd,
                         IF \E k \in 1..Len(attrs) : attrs[k].name = name
                         THEN attrs
                         ELSE Append(attrs,
                                  [name |-> name,
                                   value |-> IF hasValue
                                             THEN SubSeq(s, nameEnd + 1,
                                                         valueEnd - 1)
                                             ELSE <<>>])) :
                        valueEnd \in {IF hasValue
                                      THEN FirstIn(s, nameEnd + 1, {">"})
                                      ELSE nameEnd}}) :
                nameEnd \in {FirstIn(s, j + 1, {"=", "/", ">"})}})

RECURSIVE AttrText(_)
AttrText(attrs) ==
    IF Len(attrs) = 0 THEN <<>>
    ELSE (IF attrs[1].name \in AllowedAttrs
          THEN <<" ">> \o attrs[1].name \o <<"=", "\"">> \o attrs[1].value
               \o <<"\"">>
          ELSE <<>>) \o AttrText(Tail(attrs))

RECURSIVE Walk(_, _, _)
Walk(s, i, open) ==
    IF i > Len(s) THEN Closers(open)
    ELSE IF s[i] # "<" THEN EscapeText(s[i]) \o Walk(s, i + 1, open)
    ELSE IF i = Len(s) THEN EscapeText("<") \o Closers(open)
    ELSE IF IsWordChar(s[i + 1]) THEN
        \* a start tag
        The({IF tag.end = 0 THEN Closers(open)
             ELSE IF tag.name \in AllowedTags
             THEN <<"<">> \o tag.name \o AttrText(tag.attrs) \o <<">">>
                  \o Walk(s, tag.end + 1, <<tag.name>> \o open)
             ELSE Walk(s, tag.end + 1, open) :
                tag \in {The({[name |-> SubSeq(s, i + 1, nameEnd - 1)]
                              @@ ParseAttrs(s, nameEnd, <<>>) :
                                 nameEnd \in
                                     {FirstIn(s, i + 1, {"/", ">"})}})}})
    ELSE IF s[i + 1] = "/" THEN
        IF i + 1 = Len(s) THEN EscapeText("<") \o <<"/">> \o Closers(open)
        ELSE IF s[i + 2] = ">" THEN Walk(s, i + 3, open)
        ELSE
            The({IF gt > Len(s) THEN Closers(open)
                 ELSE IF IsWordChar(s[i + 2]) /\ InStack(open, name)
                 THEN The({Closers(SubSeq(open, 1, Len(open) - Len(rest)))
                           \o Walk(s, gt + 1, rest) :
                              rest \in {PopTo(open, name)}})
                 ELSE Walk(s, gt + 1, open) :
                    gt \in {FirstIn(s, i + 2, {">"})},
                    name \in {SubSeq(s, i + 2,
                                     FirstIn(s, i + 2, {"/", ">"}) - 1)}})
    ELSE EscapeText("<") \o Walk(s, i + 1, open)

Sanitize(dirty) ==
    The({IF \A k \in 1..Len(s) : s[k] # "<" THEN s ELSE Walk(s, 1, <<>>) :
            s \in {dirty}})

(***************************************************************************)
(* processHashtags (App.jsx 45-52).                                        *)
(***************************************************************************)
\* A formatter that keeps only the first occurrence of each token.
processHashtagsDedup(text) ==
    The({[k \in 1..Len(cut) |-> <<"#">> \o cut[k]] :
      cut \in {Slice(kept, 0, MAX_HASHTAGS) :
        kept \in {SelectSeq([k \in 1..Len(clean) |->
                               IF \E m \in 1..(k - 1) : clean[m] = clean[k]
                               THEN <<>> ELSE clean[k]],
                           LAMBDA tag : Len(tag) > 0) :
          clean \in {[k \in 1..Len(parts) |-> Sanitize(Trim(parts[k]))] :
            parts \in {Split(text, Separators)}}}}})

processHashtags(text) ==
    The({[k \in 1..Len(cut) |-> <<"#">> \o cut[k]] :
      cut \in {Slice(kept, 0, MAX_HASHTAGS) :
        kept \in {SelectSeq(clean, LAMBDA tag : Len(tag) > 0) :
          clean \in {[k \in 1..Len(parts) |-> Sanitize(Trim(parts[k]))] :
            parts \in {Split(text, Separators)}}}}})

(***************************************************************************)
(* getLastTypedHashtag (App.jsx 71-74): group 1 of /#?(\w+)$/, the longest *)
(* run of word characters the text ends with, '' when there is no match.   *)
(***************************************************************************)
getLastTypedHashtag(text) ==
    SubSeq(text, 1 + LastNotIn(text, Len(text), Letters), Len(text))

(***************************************************************************)
(* fuse.search(pattern, {limit}) over single-word tags with threshold 0.2  *)
(* and distance 30 (App.jsx 38-43, 82).  The Bitap score of a match is     *)
(* errors / Len(pattern) + location / distance.  Every tag of the modelled *)
(* corpus is shorter than 4 characters, so a match with an error scores    *)
(* above the threshold: the matches are the tags that contain the pattern, *)
(* at a location of at most 6, ranked by location and then corpus index.   *)
(***************************************************************************)
FUSE_MAX_LOCATION == 6

\* 0-based location of the first occurrence of pattern in tag, -1 if none.
Location(tag, pattern) ==
    LET at == {p \in 1..(Len(tag) - Len(pattern) + 1) :
                  SubSeq(tag, p, p + Len(pattern) - 1) = pattern}
    IN  IF at = {} THEN -1
        ELSE (CHOOSE p \in at : \A q \in at : p <= q) - 1

\* The tags with index in hits, ordered by (location, index).
Ranked(corpus, pattern, hits) ==
    LET key(k) == Location(corpus[k], pattern) * (Len(corpus) + 1) + k
    IN  [r \in 1..Cardinality(hits) |->
            corpus[CHOOSE k \in hits :
                      Cardinality({m \in hits : key(m) < key(k)}) = r - 1]]

FuseSearch(corpus, pattern, limit) ==
    The({Slice(ranked, 0, limit) :
            ranked \in
                {Ranked(corpus, pattern,
                        {k \in 1..Len(corpus) :
                            Location(corpus[k], pattern)
                                \in 0..FUSE_MAX_LOCATION})}})

(***************************************************************************)
(* State.                                                                  *)
(***************************************************************************)
VARIABLES
    phase,               \* "mounting", "running" or "crashed"
    inputText,           \* useState inputText
    hashtags,            \* useState hashtags
    notification,        \* useState notification
    hashtagSuggestions,  \* useState hashtagSuggestions
    data,                \* useState data
    copiedIndex,         \* useState copiedIndex
    localStorage,        \* the slots hashtagInput and hashtags
    fetchPending,        \* the corpus request is in flight
    pendingWrites,       \* clipboard writes in flight, by chip index
    timers,              \* armed notification timers, by id
    flashTimers,         \* armed "just copied" timers
    warnings,            \* warnings raised by the most recent text change
    deleteRun            \* Delete clicks since the text was last entered

vars ==
    <<phase, inputText, hashtags, notification, hashtagSuggestions, data,
      copiedIndex, localStorage, fetchPending, pendingWrites, timers,
      flashTimers, warnings, deleteRun>>

NULL == [message |-> "null", type |-> "null", id |-> -1]

Absent == [kind |-> "absent", value |-> <<>>]

\* JSON.stringify of an array of strings, and a stored string.
ToJSON(list) == [kind |-> "array", value |-> list]

Stored(text) == [kind |-> "string", value |-> text]

\* Slot values JSON.parse throws on, and valid JSON that is not an array.
Unparseable == [kind |-> "unparseable", value |-> <<>>]

NonArray == [kind |-> "nonarray", value |-> <<>>]

(***************************************************************************)
(* The effects of the component.                                           *)
(***************************************************************************)
\* App.jsx 54-57: both slots are rewritten.
EffectPersist(text, tags) ==
    [hashtagInput |-> Stored(text), hashtags |-> ToJSON(tags)]

\* App.jsx 59-61: the value handed to setHashtags.
EffectRegenerate(text) == processHashtags(text)

\* App.jsx 63-69: whether the warning is raised, and the value handed to
\* setHashtags.
EffectLimit(text) ==
    The({[warn |-> Len(processed) > MAX_HASHTAGS,
          tags |-> Slice(processed, 0, MAX_HASHTAGS)] :
            processed \in {processHashtags(text)}})

\* A suggestion effect that shows every match.
EffectSuggestNoLimit(text, corpus) ==
    IF Len(corpus) = 0 THEN <<>>
    ELSE
        The({IF Len(lastTypedHashtag) = 0 THEN <<>>
             ELSE FuseSearch(corpus, lastTypedHashtag, Len(corpus)) :
                lastTypedHashtag \in {getLastTypedHashtag(text)}})

\* App.jsx 76-83; fuse (38-43) is null while data is empty.
EffectSuggest(text, corpus) ==
    IF Len(corpus) = 0 THEN <<>>
    ELSE
        The({IF Len(lastTypedHashtag) = 0 THEN <<>>
             ELSE FuseSearch(corpus, lastTypedHashtag, SUGGESTION_LIMIT) :
                lastTypedHashtag \in {getLastTypedHashtag(text)}})

\* A timer effect without the clean-up: the previous timer stays armed.
EffectTimerNoCleanup(armed, prev, next) ==
    IF next = prev THEN armed
    ELSE armed \cup (IF next = NULL THEN {} ELSE {next.id})

\* App.jsx 122-127: when the notification object changed, the clean-up of
\* the previous run clears its timer and a timer is armed for the new one.
EffectTimer(armed, prev, next) ==
    IF next = prev THEN armed
    ELSE (armed \ (IF prev = NULL THEN {} ELSE {prev.id}))
         \cup (IF next = NULL THEN {} ELSE {next.id})

\* A new notification object.  Its id is that of the timer armed for it,
\* the id after that of the notification it replaces.
Note(message, type) ==
    [message |-> message, type |-> type,
     id |-> IF notification = NULL THEN 0
            ELSE (notification.id + 1) % TimerIds]

\* The render and effects that follow setNotification(next).
Show(next) ==
    \E note \in {next} :
        /\ notification' = note
        /\ timers' = EffectTimer(timers, notification, note)

\* The render and effects that follow setInputText(text) and
\* setHashtags(tags); changed says that the effects depending on inputText
\* run.  The setters of the effects are applied in order: the last value
\* handed to setHashtags is the one rendered, and persisted by the second
\* run of the persist effect.
TextEvent(text, tags, changed) ==
    \E limit \in {EffectLimit(text)} :
        \E queue \in {IF changed
                      THEN <<tags, EffectRegenerate(text), limit.tags>>
                      ELSE <<tags>>} :
            LET settled == queue[Len(queue)]
                raised == changed /\ limit.warn
            IN  /\ inputText' = text
                /\ hashtags' = settled
                /\ localStorage' = EffectPersist(text, settled)
                /\ hashtagSuggestions' =
                       IF changed THEN EffectSuggest(text, data)
                       ELSE hashtagSuggestions
                /\ Show(IF raised
                        THEN Note("Instagram allows maximum 30 hashtags!",
                                  "is-warning")
                        ELSE notification)
                /\ warnings' = IF raised THEN 1 ELSE 0

(***************************************************************************)
(* Inputs.                                                                 *)
(***************************************************************************)
\* The n-th word over {a, b}: a, b, aa, ab, ba, bb, aaa, ...
RECURSIVE Word(_)
Word(n) ==
    IF n = 0 THEN <<>>
    ELSE Word((n - 1) \div 2) \o <<IF n % 2 = 1 THEN "a" ELSE "b">>

\* n distinct words separated by commas.
DistinctWords(n) ==
    The({Join(words, <<",">>) : words \in {[k \in 1..n |-> Word(k)]}})

ExampleText ==
    <<"c", "a", "t", ",", " ", "d", "o", "g", " ", " ",
      "f", "o", "x", ",", "f", "o", "x">>

MarkupText == <<"<", "a", "/", "i", "d", "=", "a", ">">>

Pastes ==
    {ExampleText, MarkupText, DistinctWords(MAX_HASHTAGS + 5)}

\* The values the textarea may report after one edit of text: a character
\* typed or removed at the end, the text cleared, or a text pasted into the
\* empty textarea.
Values(text) ==
    ({text \o <<c>> : c \in IF Len(text) < MaxLen THEN TypedChars ELSE {}}
     \cup (IF 0 < Len(text) /\ Len(text) <= MaxLen
           THEN {SubSeq(text, 1, Len(text) - 1)} ELSE {})
     \cup {<<>>}
     \cup (IF Len(text) = 0 THEN Pastes ELSE {})) \ {text}

Corpus ==
    << <<"a">>, <<"a", "a">>, <<"a", "b">>, <<"b", "a">>,
       <<"a", "a", "b">>, <<"a", "b", "a">> >>

\* What response.json() may yield: the corpus, an empty array, not an array.
FetchBodies ==
    {[array |-> TRUE, items |-> Corpus],
     [array |-> TRUE, items |-> <<>>],
     [array |-> FALSE, items |-> <<>>]}

(***************************************************************************)
(* Start of a session (App.jsx 13-19 and the first render).                *)
(***************************************************************************)
\* JSON.parse throws on an unparseable slot; a parsed value that is not an
\* array has no map method and the first render throws.
StartFails(store) == store.hashtags.kind \in {"unparseable", "nonarray"}

Start(store) ==
    /\ localStorage' = store
    /\ phase' = IF StartFails(store) THEN "crashed" ELSE "mounting"
    /\ inputText' = store.hashtagInput.value
    /\ hashtags' = IF store.hashtags.kind = "array"
                   THEN store.hashtags.value ELSE <<>>
    /\ notification' = NULL
    /\ copiedIndex' = -1
    /\ hashtagSuggestions' = <<>>
    /\ data' = <<>>
    /\ fetchPending' = FALSE
    /\ pendingWrites' = <<>>
    /\ timers' = {}
    /\ flashTimers' = 0
    /\ warnings' = 0

InitialStores ==
    {[hashtagInput |-> Absent, hashtags |-> t] :
        t \in {Absent, Unparseable, NonArray}}

Init ==
    \E store \in InitialStores :
        /\ localStorage = store
        /\ phase = IF StartFails(store) THEN "crashed" ELSE "mounting"
        /\ inputText = store.hashtagInput.value
        /\ hashtags = <<>>
        /\ notification = NULL
        /\ copiedIndex = -1
        /\ hashtagSuggestions = <<>>
        /\ data = <<>>
        /\ fetchPending = FALSE
        /\ pendingWrites = <<>>
        /\ timers = {}
        /\ flashTimers = 0
        /\ warnings = 0
        /\ deleteRun = 0

(***************************************************************************)
(* Events.                                                                 *)
(***************************************************************************)
\* The first commit: every effect runs (App.jsx 21-36, 54-69, 76-83,
\* 122-127).
Mount ==
    /\ phase = "mounting"
    /\ phase' = "running"
    /\ fetchPending' = TRUE
    /\ TextEvent(inputText, hashtags, TRUE)
    /\ UNCHANGED <<data, copiedIndex, pendingWrites, flashTimers, deleteRun>>

\* The page is loaded again: state is rebuilt from the storage slots.
Reload ==
    /\ Start(localStorage)
    /\ UNCHANGED deleteRun

\* App.jsx 143: onChange of the textarea.
OnChange(value) ==
    /\ phase = "running"
    /\ value # inputText
    /\ TextEvent(value, hashtags, TRUE)
    /\ deleteRun' = 0
    /\ UNCHANGED <<phase, data, copiedIndex, fetchPending, pendingWrites,
                   flashTimers>>

\* App.jsx 104-114.
deleteHashtag(index) ==
    \E newHashtags \in {SubSeq(hashtags, 1, index)
                        \o SubSeq(hashtags, index + 2, Len(hashtags))},
       deletedTag \in {Tail(hashtags[index + 1])} :
        \E survivors \in {SelectSeq(Split(inputText, Separators),
                                    LAMBDA tag : Trim(tag) # deletedTag)} :
            \E newInput \in {Join(survivors, <<" ">>)} :
                TextEvent(newInput, newHashtags, newInput # inputText)

DeleteClick(index) ==
    /\ phase = "running"
    /\ index \in 0..(Len(hashtags) - 1)
    /\ deleteRun < MaxDeletes
    /\ deleteHashtag(index)
    /\ deleteRun' = deleteRun + 1
    /\ UNCHANGED <<phase, data, copiedIndex, fetchPending, pendingWrites,
                   flashTimers>>

\* App.jsx 116-120.
replaceLastTypedHashtag(selectedTag) ==
    \E words \in {Split(inputText, WhiteSpace)} :
        \E replaced \in {[words EXCEPT ![Len(words)] = selectedTag]} :
            \E newInput \in {Join(replaced, <<" ">>) \o <<" ">>} :
                TextEvent(newInput, hashtags, newInput # inputText)

\* App.jsx 167: a click on a suggestion chip.
SuggestionClick(k) ==
    /\ phase = "running"
    /\ k \in 1..Len(hashtagSuggestions)
    /\ replaceLastTypedHashtag(hashtagSuggestions[k])
    /\ deleteRun' = 0
    /\ UNCHANGED <<phase, data, copiedIndex, fetchPending, pendingWrites,
                   flashTimers>>

\* App.jsx 85-91: copyToClipboard up to the clipboard call; the write is
\* left in flight.
copyToClipboard(text, index) ==
    LET finalText == IF index = -1 THEN Join(hashtags, <<" ">>) ELSE text
    IN  IF Len(finalText) = 0
        THEN /\ Show(Note("Nothing to copy", "is-danger"))
             /\ UNCHANGED pendingWrites
        ELSE /\ pendingWrites' = Append(pendingWrites, index)
             /\ UNCHANGED <<notification, timers>>

\* App.jsx 207 and 256: a click on a chip, or on Copy All (disabled while
\* the list is empty).
CopyClick(index) ==
    /\ phase = "running"
    /\ Len(hashtags) > 0
    /\ index \in {-1, 0}
    /\ Len(pendingWrites) + flashTimers < MaxPending
    /\ copyToClipboard(IF index = -1 THEN <<>> ELSE hashtags[index + 1],
                       index)
    /\ UNCHANGED <<phase, inputText, hashtags, hashtagSuggestions, data,
                   copiedIndex, localStorage, fetchPending, flashTimers,
                   warnings, deleteRun>>

Without(seq, k) == SubSeq(seq, 1, k - 1) \o SubSeq(seq, k + 1, Len(seq))

\* App.jsx 93-98: the write succeeded.
WriteResolves(k) ==
    /\ phase = "running"
    /\ k \in 1..Len(pendingWrites)
    /\ pendingWrites' = Without(pendingWrites, k)
    /\ Show(Note("Copied", "has-background-dark"))
    /\ IF pendingWrites[k] # -1
       THEN /\ copiedIndex' = pendingWrites[k]
            /\ flashTimers' = flashTimers + 1
       ELSE UNCHANGED <<copiedIndex, flashTimers>>
    /\ UNCHANGED <<phase, inputText, hashtags, hashtagSuggestions, data,
                   localStorage, fetchPending, warnings, deleteRun>>

\* App.jsx 99-101: the write was rejected.
WriteRejects(k) ==
    /\ phase = "running"
    /\ k \in 1..Len(pendingWrites)
    /\ pendingWrites' = Without(pendingWrites, k)
    /\ Show(Note("Failed to copy", "is-danger"))
    /\ UNCHANGED <<phase, inputText, hashtags, hashtagSuggestions, data,
                   copiedIndex, localStorage, fetchPending, flashTimers,
                   warnings, deleteRun>>

\* App.jsx 97: the 1000 ms timer of a copied chip fires.
FlashTimerFires ==
    /\ phase = "running"
    /\ flashTimers > 0
    /\ flashTimers' = flashTimers - 1
    /\ copiedIndex' = -1
    /\ UNCHANGED <<phase, inputText, hashtags, notification,
                   hashtagSuggestions, data, localStorage, fetchPending,
                   pendingWrites, timers, warnings, deleteRun>>

\* App.jsx 124: the 2100 ms timer t fires and calls setNotification(null).
DismissTimerFires(t) ==
    /\ phase = "running"
    /\ t \in timers
    /\ notification' = NULL
    /\ timers' = EffectTimer(timers \ {t}, notification, NULL)
    /\ UNCHANGED <<phase, inputText, hashtags, hashtagSuggestions, data,
                   copiedIndex, localStorage, fetchPending, pendingWrites,
                   flashTimers, warnings, deleteRun>>

\* App.jsx 24-30: the response arrived and was parsed.  setData re-creates
\* fuse, on which the suggestion effect depends.
FetchResolves(body) ==
    /\ phase = "running"
    /\ fetchPending
    /\ fetchPending' = FALSE
    /\ data' = IF body.array THEN body.items ELSE data
    /\ hashtagSuggestions' =
           IF body.array /\ Len(body.items) > 0
           THEN EffectSuggest(inputText, body.items)
           ELSE hashtagSuggestions
    /\ UNCHANGED <<phase, inputText, hashtags, notification, copiedIndex,
                   localStorage, pendingWrites, timers, flashTimers,
                   warnings, deleteRun>>

\* App.jsx 31-33: the request or the parse failed; the error is logged.
FetchRejects ==
    /\ phase = "running"
    /\ fetchPending
    /\ fetchPending' = FALSE
    /\ UNCHANGED <<phase, inputText, hashtags, notification,
                   hashtagSuggestions, data, copiedIndex, localStorage,
                   pendingWrites, timers, flashTimers, warnings, deleteRun>>

Next ==
    \/ Mount
    \/ Reload
    \/ \E value \in Values(inputText) : OnChange(value)
    \/ \E index \in {0, Len(hashtags) - 1} : DeleteClick(index)
    \/ \E k \in 1..SUGGESTION_LIMIT : SuggestionClick(k)
    \/ \E index \in {-1, 0} : CopyClick(index)
    \/ \E k \in 1..MaxPending : WriteResolves(k)
    \/ \E k \in 1..MaxPending : WriteRejects(k)
    \/ FlashTimerFires
    \/ \E t \in 0..(TimerIds - 1) : DismissTimerFires(t)
    \/ \E body \in FetchBodies : FetchResolves(body)
    \/ FetchRejects

Spec == Init /\ [][Next]_vars

\* A timer that is armed fires after its delay.
FairSpec ==
    Spec /\ WF_vars(\E t \in 0..(TimerIds - 1) : DismissTimerFires(t))

(***************************************************************************)
(* Properties.                                                             *)
(***************************************************************************)
\* The reference result, stated on positions of the text: a token starts at
\* every character that is not a separator and follows a separator or the
\* start of the text, and runs up to the next separator; the tokens are
\* trimmed and sanitized in order of their starts and the empty ones are
\* dropped.
Tokens(text) ==
    The({SelectSeq(
             [k \in 1..Cardinality(starts) |->
                 The({Sanitize(Trim(SubSeq(text, from,
                                  FirstIn(text, from, Separators) - 1))) :
                        from \in {i \in starts :
                                     Cardinality({j \in starts : j < i})
                                         = k - 1}})],
             LAMBDA token : Len(token) > 0) :
            starts \in {{i \in 1..Len(text) :
                            /\ text[i] \notin Separators
                            /\ i = 1 \/ text[i - 1] \in Separators}}})

\* Number of non-empty sanitized tokens of the text, before truncation.
TokenCount(text) == Len(Tokens(text))

\* The first room tokens, each prefixed with "#".
Reference(text, room) ==
    The({[k \in 1..Min(room, Len(tokens)) |-> <<"#">> \o tokens[k]] :
            tokens \in {Tokens(text)}})

ExampleTags ==
    << <<"#", "c", "a", "t">>, <<"#", "d", "o", "g">>,
       <<"#", "f", "o", "x">>, <<"#", "f", "o", "x">> >>

\* C1: for every input text the formatter returns the reference result:
\* the non-empty sanitized tokens in order of appearance, duplicates kept,
\* cut to the first 30 and prefixed with "#"; the example text gives
\* #cat #dog #fox #fox.
C1_FormatMatchesReference ==
    /\ processHashtags(inputText) = Reference(inputText, MAX_HASHTAGS)
    /\ inputText = ExampleText => processHashtags(inputText) = ExampleTags

C1_ExampleFormatted ==
    /\ phase = "running"
    /\ inputText = ExampleText
    /\ hashtags = ExampleTags

\* C2: in every state of a session, from the list restored at start-up
\* through text changes, deletions and suggestion replacements, the list
\* holds at most 30 hashtags.
C2_AtMostMaxHashtags == Len(hashtags) <= MAX_HASHTAGS

C2_FullListRestored ==
    /\ phase = "mounting"
    /\ Len(hashtags) = MAX_HASHTAGS
    /\ TokenCount(inputText) > MAX_HASHTAGS

\* C3: every entry the formatter produces starts with exactly one "#" and
\* has a non-empty remainder, also for tokens that already begin with "#".
C3_ExactlyOneHash ==
    \A out \in {processHashtags(inputText)} :
        \A k \in 1..Len(out) :
            /\ Len(out[k]) > 1
            /\ out[k][1] = "#"
            /\ out[k][2] # "#"

\* C4: a Delete click on a valid index leaves, once settled, a list exactly
\* one entry shorter and a text without any token equal to the deleted
\* entry's bare token, also with duplicates and with more than 30 tokens.
C4_DeleteRemovesOneEntry ==
    [][\A index \in {0, Len(hashtags) - 1} :
          DeleteClick(index) =>
              /\ Len(hashtags') = Len(hashtags) - 1
              /\ \A parts \in {Split(inputText', Separators)} :
                     \A k \in 1..Len(parts) :
                         Trim(parts[k]) # Tail(hashtags[index + 1])]_vars

\* C5: whenever the text changes to one with more than 30 tokens, exactly
\* one warning is raised for that change and the list holds exactly 30
\* entries.
C5_WarningOnOverflow ==
    (phase = "running" /\ TokenCount(inputText) > MAX_HASHTAGS)
        => (warnings = 1 /\ Len(hashtags) = MAX_HASHTAGS)

\* C6: a corrupt or unparseable stored hashtag list does not make start-up
\* fail: the component starts with an empty list.
C6_CorruptStoreStartsEmpty ==
    localStorage.hashtags.kind \in {"unparseable", "nonarray"}
        => (phase # "crashed" /\ hashtags = <<>>)

\* C7: at most one notification is live and at most one dismiss timer is
\* armed, the one of the live notification; a request made while one is
\* showing replaces it and re-arms the timer, cancelling the older one; a
\* notification goes back to idle only when that timer fires (or the page
\* is loaded again); and every shown notification eventually goes back to
\* idle.
C7_OneTimer ==
    /\ Cardinality(timers) <= 1
    /\ notification = NULL <=> timers = {}
    /\ notification # NULL => timers = {notification.id}

C7_Replaced ==
    (notification # NULL /\ notification' # NULL
        /\ notification' # notification)
        => (timers' = {notification'.id} /\ notification.id \notin timers')

C7_Dismissed ==
    (notification # NULL /\ notification' = NULL)
        => (DismissTimerFires(notification.id) \/ Reload)

C8_SuggestionsBounded ==
    /\ Len(hashtagSuggestions) <= 5
    /\ (Len(inputText) = 0 \/ inputText[Len(inputText)] \notin Letters
        \/ data = <<>>) => hashtagSuggestions = <<>>

C8_FiveOfSix ==
    /\ Len(hashtagSuggestions) = 5
    /\ Len(data) = 6
    /\ \A k \in 1..Len(data) : Location(data[k], getLastTypedHashtag(inputText)) >= 0

\* C9: formatting is idempotent: the list, stripped of the leading "#" of
\* each entry and joined with single spaces, formats to the same list.
C9_FormatIdempotent ==
    \A out \in {processHashtags(inputText)} :
        \A joined \in {Join([k \in 1..Len(out) |-> Tail(out[k])], <<" ">>)} :
            processHashtags(joined) = out

\* C10: once an event has settled the list is the formatted text, and the
\* two storage slots hold that text and that list.
C10_ListDerivedFromText ==
    phase = "running" =>
        /\ hashtags = processHashtags(inputText)
        /\ localStorage = [hashtagInput |-> Stored(inputText),
                           hashtags |-> ToJSON(hashtags)]
=============================================================================
